---- MODULE Spec2Model ----
(***************************************************************************)
(* Model of tools/vector_search.py: the process-wide embedding cache       *)
(* (_VECTOR_DATABASE_STORE), its JSON snapshot, the parallel build from a   *)
(* markdown file and the cosine-similarity search; and of                  *)
(* calculate_distance of tools/space_calculator.py.                        *)
(*                                                                         *)
(* Spec is the vector store driven by one calling thread, SpecOverlap a    *)
(* search in a second thread during one rebuild, SpecDistance the          *)
(* calculator.                                                             *)
(*                                                                         *)
(* Conventions.                                                            *)
(*  - A text is a sequence of characters over Alphabet; "\n" is the line   *)
(*    separator and " " the only whitespace.                               *)
(*  - A number is an integer.  JSON numbers (Python floats, doubles) are   *)
(*    all integers; the float32 values are the multiples of F32Step, and   *)
(*    Float32 is the narrowing conversion np.array(..., dtype=np.float32). *)
(*  - A similarity score is kept as the exact rational sgn(d)*d^2 / (n1*n2)*)
(*    (num/den) of the real cosine d/sqrt(n1*n2); this transformation is   *)
(*    strictly monotone, so order and ties are those of the real cosine.   *)
(*    Rounding of the float division itself is not modelled.               *)
(***************************************************************************)
EXTENDS Integers, Sequences, FiniteSets, TLC

(* ------------------------------ bounds -------------------------------- *)

\* Largest max_workers argument tried.
MaxWorkers == 2

\* Spacing of the float32 values among the JSON numbers.
F32Step == 2

(* ------------------------- program constants -------------------------- *)

\* vector_search.py:13 sets 1024; the model keeps the check, scaled down.
EMBEDDING_DIMENSION == 2

\* vector_search.py:239, the literal in `if top_k > 25`.
MAX_TOP_K == 25

(* ------------------------------- text --------------------------------- *)

NL == "\n"
SP == " "
Alphabet == {"a", SP, NL}

Min(a, b) == IF a <= b THEN a ELSE b
Max(a, b) == IF a >= b THEN a ELSE b

\* str.strip(): drop leading and trailing whitespace.
RECURSIVE lstrip(_)
lstrip(s) == IF s # <<>> /\ Head(s) = SP THEN lstrip(Tail(s)) ELSE s

RECURSIVE rstrip(_)
rstrip(s) ==
  IF s # <<>> /\ s[Len(s)] = SP THEN rstrip(SubSeq(s, 1, Len(s) - 1)) ELSE s

strip(s) == rstrip(lstrip(s))

\* str.split('\n'): the pieces between separators, empty pieces included;
\* a text with k separators gives k + 1 pieces.
RECURSIVE split(_)
split(s) ==
  IF \A i \in 1..Len(s) : s[i] # NL
  THEN <<s>>
  ELSE LET i == CHOOSE j \in 1..Len(s) :
                  s[j] = NL /\ \A k \in 1..(j - 1) : s[k] # NL
       IN  <<SubSeq(s, 1, i - 1)>> \o split(SubSeq(s, i + 1, Len(s)))

\* [chunk.strip() for chunk in content.split('\n') if chunk.strip()]
RECURSIVE StripNonBlank(_)
StripNonBlank(lines) ==
  IF lines = <<>> THEN <<>>
  ELSE IF strip(Head(lines)) # <<>>
       THEN <<strip(Head(lines))>> \o StripNonBlank(Tail(lines))
       ELSE StripNonBlank(Tail(lines))

Chunks(content) == StripNonBlank(split(content))


(* ------------------------------ numbers ------------------------------- *)

\* The nearest float32 value (ties upward): the narrowing every
\* np.array(..., dtype=np.float32) performs on a JSON number.
Float32(x) == F32Step * ((2 * x + F32Step) \div (2 * F32Step))

\* np.array(values, dtype=np.float32) on a flat list of numbers.
np_array_float32(values) == [i \in 1..Len(values) |-> Float32(values[i])]

\* ndarray.tolist(): float32 to Python float, an exact widening.
tolist(arr) == [i \in 1..Len(arr) |-> arr[i]]

RECURSIVE Dot(_, _)
Dot(v, w) ==
  IF v = <<>> \/ w = <<>> THEN 0
  ELSE Head(v) * Head(w) + Dot(Tail(v), Tail(w))

\* np.linalg.norm(v) squared.
SqNorm(v) == Dot(v, v)

Sgn(x) == IF x > 0 THEN 1 ELSE IF x < 0 THEN -1 ELSE 0

(* ------------------------ Embedding provider -------------------------- *)

U == F32Step

\* What invoke_model can answer: a ClientError, or a body in one of the two
\* accepted shapes, or a body with neither field.  The vectors include one of
\* the wrong length, the zero vector and one whose first component is not a
\* float32 value.
ProviderVectors == { <<U, 0>>, <<0, U>>, <<0, 0>>, <<U - 1, 0>>, <<U>> }

ProviderResponses ==
  { [kind |-> "client_error", vec |-> <<>>],
    [kind |-> "no_embedding", vec |-> <<>>] }
  \cup { [kind |-> k, vec |-> v] : k \in {"flat", "nested"}, v \in ProviderVectors }

\* The answers drawn for the chunks of a build: all but the zero vector (a
\* cached zero vector comes from a snapshot, see ExternalSnapshots).
BuildResponses == {r \in ProviderResponses : r.vec # <<0, 0>>}

\* The answers with which an embedding request fails: a provider error, a
\* body without the vector field, a vector of another length than configured.
RequestFails(response) ==
  \/ response.kind \in {"client_error", "no_embedding"}
  \/ Len(response.vec) # EMBEDDING_DIMENSION

\* Why the request fails, "" when it does not.
FailureOf(response) ==
  IF response.kind \in {"client_error", "no_embedding"} THEN response.kind
  ELSE IF Len(response.vec) # EMBEDDING_DIMENSION THEN "dimension"
  ELSE ""

Raise == [raised |-> TRUE, value |-> <<>>]
Return(v) == [raised |-> FALSE, value |-> v]

\* _get_embedding once the provider has answered `response`.  Every branch
\* that fails re-raises (lines 142-149).
\* Variant without dtype=np.float32 at line 135: the array keeps the doubles.
_get_embedding_float64(response) ==
  IF response.kind \in {"client_error", "no_embedding"} THEN Raise
  ELSE IF Len(response.vec) # EMBEDDING_DIMENSION THEN Raise
  ELSE Return(response.vec)

\* Variant that cuts or zero-pads the vector to the configured length
\* where lines 137-140 raise.
_get_embedding_resizing(response) ==
  IF response.kind = "client_error" THEN Raise
  ELSE IF response.kind = "no_embedding" THEN Raise
  ELSE LET final_embedding == np_array_float32(response.vec)
       IN  Return([i \in 1..EMBEDDING_DIMENSION |->
                     IF i <= Len(final_embedding) THEN final_embedding[i] ELSE 0])

_get_embedding(response) ==
  IF response.kind = "client_error" THEN Raise
  ELSE IF response.kind = "no_embedding" THEN Raise
  ELSE LET final_embedding == np_array_float32(response.vec)
       IN  IF Len(final_embedding) # EMBEDDING_DIMENSION THEN Raise
           ELSE Return(final_embedding)

(* --------------------------- cosine similarity ------------------------ *)

ZeroScore == [num |-> 0, den |-> 1]

\* A variant without the test of lines 224-225: the division by a zero
\* norm has no value.
_cosine_similarity_no_zero_test(vec1, vec2) ==
  IF Len(vec1) # Len(vec2) THEN Raise
  ELSE IF SqNorm(vec1) = 0 \/ SqNorm(vec2) = 0 THEN Raise
  ELSE LET d == Dot(vec1, vec2)
       IN  Return([num |-> Sgn(d) * d * d, den |-> SqNorm(vec1) * SqNorm(vec2)])

\* _cosine_similarity: 0.0 when either norm is zero (before np.dot is
\* reached); np.dot raises ValueError on 1-D arrays of different lengths.
_cosine_similarity(vec1, vec2) ==
  IF SqNorm(vec1) = 0 \/ SqNorm(vec2) = 0 THEN Return(ZeroScore)
  ELSE IF Len(vec1) # Len(vec2) THEN Raise
  ELSE LET d == Dot(vec1, vec2)
       IN  Return([num |-> Sgn(d) * d * d, den |-> SqNorm(vec1) * SqNorm(vec2)])

\* Order of two scores (den > 0 always).
ScoreGT(a, b) == a.num * b.den > b.num * a.den
ScoreGE(a, b) == a.num * b.den >= b.num * a.den
ScoreEQ(a, b) == a.num * b.den = b.num * a.den

(* ------------------------------ sorting ------------------------------- *)

\* sorted(xs, key=lambda x: x["score"], reverse=True): descending, and
\* stable (equal keys keep their order in xs, also with reverse=True).
\* Insertion of x behind every element that is >= x.
InsertDesc(r, x) ==
  LET k == Cardinality({i \in 1..Len(r) : ScoreGE(r[i].score, x.score)})
  IN  SubSeq(r, 1, k) \o <<x>> \o SubSeq(r, k + 1, Len(r))

RECURSIVE SortPrefix(_, _)
SortPrefix(xs, n) ==
  IF n = 0 THEN <<>> ELSE InsertDesc(SortPrefix(xs, n - 1), xs[n])

\* An unstable variant: x goes in front of the elements equal to it.
sorted_desc_unstable(xs) ==
  LET RECURSIVE Go(_)
      Go(n) ==
        IF n = 0 THEN <<>>
        ELSE LET r == Go(n - 1)
                 k == Cardinality({i \in 1..Len(r) : ScoreGT(r[i].score, xs[n].score)})
             IN  SubSeq(r, 1, k) \o <<xs[n]>> \o SubSeq(r, k + 1, Len(r))
  IN  Go(Len(xs))

sorted_desc(xs) == SortPrefix(xs, Len(xs))

\* xs[:k] with Python's meaning of a negative k.
slice_to(xs, k) ==
  IF k >= 0 THEN SubSeq(xs, 1, Min(k, Len(xs)))
  ELSE SubSeq(xs, 1, Max(Len(xs) + k, 0))

(* ------------------------------- state -------------------------------- *)

VARIABLES
  store,           \* _VECTOR_DATABASE_STORE: the cache, a sequence of records
  snapshot,        \* the file at VECTOR_DB_CACHE_FILE
  parentDir,       \* whether objects/datasets/ exists
  vectorCacheDir,  \* whether vector_cache/ exists
  pc,              \* where the calling thread is
  job,             \* the build in progress: chunks, pool and futures
  query,           \* the search in progress
  last             \* the operation called last: arguments and outcome

vars == <<store, snapshot, parentDir, vectorCacheDir, pc, job, query, last>>

\* Source documents: the empty file, blank lines only, one line with
\* whitespace around and inside it, two lines, and two lines with blank lines
\* before, between and after them.
Docs ==
  { <<>>,
    <<SP, NL, SP>>,
    <<SP, "a", SP, "a", SP, NL>>,
    <<"a", NL, "a", "a">>,
    <<NL, "a", SP, NL, SP, NL, SP, "a", "a", NL>> }

\* The most chunks a document of Docs gives.
MaxChunks == CHOOSE n \in 0..10 : /\ \E c \in Docs : Len(Chunks(c)) = n
                                  /\ \A c \in Docs : Len(Chunks(c)) <= n

\* What open(markdown_filepath) finds.
Sources ==
  { [exists |-> FALSE, content |-> <<>>] }
  \cup { [exists |-> TRUE, content |-> c] : c \in Docs }

WorkerArgs == 0..MaxWorkers

\* message arguments: the empty string, a query, a value that is no string.
Messages ==
  { [isStr |-> TRUE, text |-> <<>>],
    [isStr |-> TRUE, text |-> <<"a">>],
    [isStr |-> FALSE, text |-> <<>>] }

TopKs == {-1, 0, 2, MAX_TOP_K, MAX_TOP_K + 1}

SnapRecord(t, c, e) == [text |-> t, chunk_id |-> c, embedding |-> e]

Absent == [state |-> "absent", data |-> <<>>]
Garbage == [state |-> "garbage", data |-> <<>>]
Json(d) == [state |-> "json", data |-> d]

\* Snapshot files found at start-up; a snapshot is not validated against the
\* configured dimension, and its numbers need not be float32 values.
ExternalSnapshots ==
  { Json(<<>>),
    Json(<< SnapRecord(<<"a">>, 0, <<U, 0>>),
            SnapRecord(<<"a", "a">>, 1, <<0, U>>),
            SnapRecord(<<"a", SP, "a">>, 2, <<U - 1, 0>>) >>),
    Json(<< SnapRecord(<<"a">>, 0, <<U, 0>>),
            SnapRecord(<<"a", "a">>, 1, <<U>>) >>),
    Json(<< SnapRecord(<<"a">>, 0, <<0>>),
            SnapRecord(<<"a", "a">>, 1, <<-U, 0>>),
            SnapRecord(<<"a">>, 2, <<U, U>>),
            SnapRecord(<<"a", "a">>, 3, <<0, 0>>) >>),
    Json(<< SnapRecord(<<"a">>, 0, <<U, U, 0>>) >>) }

NoJob ==
  [caller |-> "none", chunks |-> <<>>, max_workers |-> 0,
   task |-> <<>>, result |-> <<>>, processed_count |-> 0]

NoQuery == [top_k |-> 0]

NoEntry == [text |-> <<>>, chunk_id |-> -1, embedding |-> <<>>]
Failed == [raised |-> TRUE, entry |-> NoEntry]
Pending == [raised |-> FALSE, entry |-> NoEntry]

NoEnvelope == [ctor |-> "none", payload |-> "none", data |-> <<>>]

NoLast ==
  [op |-> "none", afterSave |-> FALSE,
   done |-> TRUE, raised |-> FALSE,
   force |-> FALSE, snapAtCall |-> "absent", source |-> FALSE,
   content |-> <<>>, chunks |-> <<>>, failed |-> {}, wrongLen |-> {},
   pool |-> FALSE,
   status |-> "", count |-> 0, total |-> 0, ret |-> FALSE,
   msgOk |-> FALSE, top_k |-> 0, emptyAtCall |-> FALSE, query |-> Raise,
   why |-> "",
   result |-> NoEnvelope,
   requests |-> 0, buildRan |-> FALSE, saveCalled |-> FALSE]

\* A fresh `last` for a call of `op`.
Called(op) ==
  [NoLast EXCEPT !.op = op, !.snapAtCall = snapshot.state]

Init ==
  /\ store = <<>>
  /\ \/ /\ snapshot = Absent
        /\ parentDir \in BOOLEAN
     \/ /\ snapshot \in ExternalSnapshots \cup {Garbage}
        /\ parentDir = TRUE
  /\ vectorCacheDir = FALSE
  /\ pc = "idle"
  /\ job = NoJob
  /\ query = NoQuery
  /\ last = NoLast

(* ------------------------- Tool Result Envelope ----------------------- *)

\* tools/return_type.py is not among the sources: the constructor called is
\* read from vector_search.py, what it means is the specification's.
\* The payload is a list of results ("list") or a message string ("text").
ToolResult_ok(payload, data) == [ctor |-> "ok", payload |-> payload, data |-> data]
ToolResult_err == [ctor |-> "err", payload |-> "text", data |-> <<>>]
ToolResult_ok_empty == [ctor |-> "ok_empty", payload |-> "text", data |-> <<>>]

success(envelope) == envelope.ctor \in {"ok", "ok_empty"}

(* --------------------------- Cache Store ------------------------------ *)

\* _save_embeddings lines 56-62: the JSON form of the cache.
Serialize(s) ==
  [i \in 1..Len(s) |->
     SnapRecord(s[i].text, s[i].chunk_id, tolist(s[i].embedding))]

\* _load_embeddings lines 78-84: the cache rebuilt from the JSON records.
Deserialize(d) ==
  [i \in 1..Len(d) |->
     [text |-> d[i].text, chunk_id |-> d[i].chunk_id,
      embedding |-> np_array_float32(d[i].embedding)]]

\* open(VECTOR_DB_CACHE_FILE, 'w') fails when objects/datasets/ is missing:
\* os.makedirs creates vector_cache/, not the snapshot's directory.
SaveRaises == ~parentDir

\* The file system after _save_embeddings with the cache holding s.
SaveEffect(s) ==
  /\ vectorCacheDir' = TRUE
  /\ parentDir' = parentDir
  /\ snapshot' = IF SaveRaises THEN snapshot ELSE Json(Serialize(s))

\* json.load raises on a file that is no JSON document.
LoadRaises == snapshot.state = "garbage"

\* _load_embeddings' return value when it does not raise.
LoadReturns == snapshot.state = "json"

\* A variant without the reset of line 78: the records are appended.
LoadedStoreAppending ==
  IF snapshot.state = "json" THEN store \o Deserialize(snapshot.data) ELSE store

\* The cache after _load_embeddings.
LoadedStore ==
  IF snapshot.state = "json" THEN Deserialize(snapshot.data) ELSE store

\* _save_embeddings()
Save ==
  /\ pc = "idle"
  /\ SaveEffect(store)
  /\ last' = [Called("save") EXCEPT !.raised = SaveRaises, !.saveCalled = TRUE]
  /\ UNCHANGED <<store, pc, job, query>>

\* _load_embeddings()
Load ==
  /\ pc = "idle"
  /\ store' = LoadedStore
  /\ last' = [Called("load") EXCEPT
                !.afterSave = (last.saveCalled /\ ~last.raised),
                !.emptyAtCall = (store = <<>>),
                !.raised = LoadRaises,
                !.ret = (~LoadRaises /\ LoadReturns)]
  /\ UNCHANGED <<snapshot, parentDir, vectorCacheDir, pc, job, query>>

(* --------------------- Chunking + Parallel Embedder ------------------- *)

\* _process_chunk_for_embedding, once the provider has answered: the
\* future's result, or its exception.
_process_chunk_for_embedding(chunk_text, chunk_id, response) ==
  LET embedding_vector == _get_embedding(response)
  IN  IF embedding_vector.raised THEN Failed
      ELSE [raised |-> FALSE,
            entry |-> [text |-> chunk_text, chunk_id |-> chunk_id,
                       embedding |-> embedding_vector.value]]

\* A variant that saves whatever the build returned.
SavesAlways(status) == TRUE

\* initialize_or_load_vector_db line 96: save follows a build that returned
\* `status`.
SavesAfter(status) == status = "success"

\* A variant numbering from one, as enumerate(chunks, 1) would.
ChunkIdFromOne(i) == i

\* enumerate(chunks): the identifier of the chunk at (1-based) place i.
ChunkId(i) == i - 1

\* A variant that leaves the cache as it is.
_clear_vector_database_noop(s) == s

\* _clear_vector_database on a cache holding s: the cache afterwards.
_clear_vector_database(s) == <<>>

\* A variant of line 187 that never finds the chunk list empty.
not_chunks_never(chunks) == FALSE

\* Line 187, `if not chunks`.
not_chunks(chunks) == chunks = <<>>

Tasks == 1..Len(job.chunks)
Running == {i \in Tasks : job.task[i] = "running"}

\* initialize_vector_db_from_markdown lines 179-198, entered with `L` as
\* the record of the call: clear, read, chunk, create the pool and submit.
\* ThreadPoolExecutor raises ValueError for max_workers <= 0, which line 216
\* turns into an error status.
StartBuild(L, caller, src, max_workers) ==
  LET chunks == IF src.exists THEN Chunks(src.content) ELSE <<>>
      L1 == [L EXCEPT !.buildRan = TRUE, !.source = src.exists,
                      !.content = src.content, !.chunks = chunks]
      saves == caller = "load_or_build" /\ SavesAfter("error")
  IN  /\ store' = _clear_vector_database(store)
      /\ IF ~src.exists \/ not_chunks(chunks) \/ max_workers <= 0
         THEN /\ pc' = "idle"
              /\ job' = NoJob
              /\ IF saves THEN SaveEffect(<<>>)
                          ELSE UNCHANGED <<snapshot, parentDir, vectorCacheDir>>
              /\ last' = [L1 EXCEPT !.status = "error",
                                    !.emptyAtCall = (store = <<>>),
                                    !.saveCalled = saves,
                                    !.raised = saves /\ SaveRaises]
              /\ UNCHANGED query
         ELSE /\ pc' = "embedding"
              /\ job' = [caller |-> caller, chunks |-> chunks,
                         max_workers |-> max_workers,
                         task |-> [i \in 1..Len(chunks) |-> "queued"],
                         result |-> [i \in 1..Len(chunks) |-> Pending],
                         processed_count |-> 0]
              /\ last' = [L1 EXCEPT !.done = FALSE, !.pool = TRUE]
              /\ UNCHANGED <<snapshot, parentDir, vectorCacheDir, query>>

\* initialize_vector_db_from_markdown(markdown_filepath, max_workers)
BuildCall(src, max_workers) ==
  /\ pc = "idle"
  /\ StartBuild(Called("build"), "build", src, max_workers)

\* initialize_or_load_vector_db(markdown_filepath, max_workers, force_regenerate)
LoadOrBuildCall(src, max_workers, force_regenerate) ==
  LET L == [Called("load_or_build") EXCEPT !.force = force_regenerate]
  IN  /\ pc = "idle"
      /\ IF ~force_regenerate /\ LoadRaises
         THEN /\ last' = [L EXCEPT !.raised = TRUE]
              /\ UNCHANGED <<store, snapshot, parentDir, vectorCacheDir, pc, job, query>>
         ELSE IF ~force_regenerate /\ LoadReturns
         THEN /\ store' = LoadedStore
              /\ last' = [L EXCEPT !.status = "loaded_from_cache",
                                   !.count = Len(LoadedStore)]
              /\ UNCHANGED <<snapshot, parentDir, vectorCacheDir, pc, job, query>>
         ELSE StartBuild(L, "load_or_build", src, max_workers)

\* A pool thread takes the oldest queued task and sends its request.
WorkerStart(i) ==
  /\ pc = "embedding"
  /\ i \in Tasks
  /\ job.task[i] = "queued"
  /\ \A j \in 1..(i - 1) : job.task[j] # "queued"
  /\ Cardinality(Running) < job.max_workers
  /\ job' = [job EXCEPT !.task[i] = "running"]
  /\ last' = [last EXCEPT !.requests = @ + 1]
  /\ UNCHANGED <<store, snapshot, parentDir, vectorCacheDir, pc, query>>

\* The provider answers task i: its future completes.
WorkerFinish(i, response) ==
  /\ pc = "embedding"
  /\ i \in Tasks
  /\ job.task[i] = "running"
  /\ job' = [job EXCEPT
               !.task[i] = "done",
               !.result[i] =
                 _process_chunk_for_embedding(job.chunks[i], ChunkId(i), response)]
  /\ last' = [last EXCEPT
                !.failed = IF RequestFails(response) THEN @ \cup {ChunkId(i)} ELSE @,
                !.wrongLen = IF FailureOf(response) = "dimension"
                             THEN @ \cup {ChunkId(i)} ELSE @]
  /\ UNCHANGED <<store, snapshot, parentDir, vectorCacheDir, pc, query>>

\* Lines 202-209 on the future's result r: the entry is appended
\* (_save_entry_to_vector_database) and counted, or the exception is printed.
AfterCollect(s, r) == IF r.raised THEN s ELSE Append(s, r.entry)

CountedAlways(n, r) == n + 1

Counted(n, r) == IF r.raised THEN n ELSE n + 1

\* One round of the as_completed loop (lines 200-209), on any completed
\* future not yet yielded.
Collect(i) ==
  /\ pc = "embedding"
  /\ i \in Tasks
  /\ job.task[i] = "done"
  /\ store' = AfterCollect(store, job.result[i])
  /\ job' = [job EXCEPT !.task[i] = "collected",
                        !.processed_count = Counted(@, job.result[i])]
  /\ UNCHANGED <<snapshot, parentDir, vectorCacheDir, pc, query, last>>

\* A variant that leaves the loop once one future has been collected.
AllJoinedAfterFirst == \E i \in Tasks : job.task[i] = "collected"

\* The as_completed loop has yielded every submitted future and the `with`
\* block of line 194 has been left (the pool is shut down, waiting).
AllJoined == \A i \in Tasks : job.task[i] = "collected"

\* Lines 211-212, and for initialize_or_load_vector_db lines 96-98.
BuildFinish ==
  /\ pc = "embedding"
  /\ AllJoined
  /\ LET saves == job.caller = "load_or_build" /\ SavesAfter("success")
     IN  /\ IF saves THEN SaveEffect(store)
                     ELSE UNCHANGED <<snapshot, parentDir, vectorCacheDir>>
         /\ last' = [last EXCEPT
                       !.done = TRUE,
                       !.status = "success",
                       !.count = job.processed_count,
                       !.total = Len(store),
                       !.saveCalled = saves,
                       !.raised = saves /\ SaveRaises]
  /\ pc' = "idle"
  /\ job' = NoJob
  /\ UNCHANGED <<store, query>>

(* --------------------------- Similarity Search ------------------------ *)

\* Lines 249-262 with query vector q over cache s: the scored entries in
\* cache order, or the exception of the first np.dot that fails.  Every
\* cached embedding is an ndarray (lines 83, 135), so the isinstance test of
\* line 252 passes for every entry.  `pos` is the entry's place in the cache;
\* it is not part of the returned dict and only serves to state the order.
Scored(q, s) ==
  [i \in 1..Len(s) |->
     [text |-> s[i].text, chunk_id |-> s[i].chunk_id,
      score |-> _cosine_similarity(q, s[i].embedding).value, pos |-> i]]

ScanRaises(q, s) ==
  \E i \in 1..Len(s) : _cosine_similarity(q, s[i].embedding).raised

\* Line 265.
TopResults(q, s, top_k) == slice_to(sorted_desc(Scored(q, s)), top_k)

\* A variant that answers a failed query embedding with the empty result.
SearchOutcomeSwallows(response, s, top_k) ==
  LET query_embedding == _get_embedding(response)
  IN  IF query_embedding.raised THEN ToolResult_ok_empty
      ELSE IF ScanRaises(query_embedding.value, s) THEN ToolResult_err
      ELSE LET top_results == TopResults(query_embedding.value, s, top_k)
           IN  IF top_results = <<>> THEN ToolResult_ok_empty
               ELSE ToolResult_ok("list", top_results)

\* Lines 245-273 once the provider has answered.
SearchOutcome(response, s, top_k) ==
  LET query_embedding == _get_embedding(response)
  IN  IF query_embedding.raised THEN ToolResult_err
      ELSE IF ScanRaises(query_embedding.value, s) THEN ToolResult_err
      ELSE LET top_results == TopResults(query_embedding.value, s, top_k)
           IN  IF top_results = <<>> THEN ToolResult_ok_empty
               ELSE ToolResult_ok("list", top_results)

\* A variant that looks at the cache before it looks at top_k.
EarlyAnswerEmptyFirst(message, top_k, s) ==
  IF ~message.isStr \/ message.text = <<>> THEN ToolResult_err
  ELSE IF s = <<>> THEN ToolResult_ok("text", <<>>)
  ELSE IF top_k > MAX_TOP_K THEN ToolResult_err
  ELSE NoEnvelope

\* A variant without the test of line 242.
EarlyAnswerNoEmptyTest(message, top_k, s) ==
  IF ~message.isStr \/ message.text = <<>> THEN ToolResult_err
  ELSE IF top_k > MAX_TOP_K THEN ToolResult_err
  ELSE NoEnvelope

\* Lines 236-243: the answer given before any request, if there is one.
EarlyAnswer(message, top_k, s) ==
  IF ~message.isStr \/ message.text = <<>> THEN ToolResult_err
  ELSE IF top_k > MAX_TOP_K THEN ToolResult_err
  ELSE IF s = <<>> THEN ToolResult_ok("text", <<>>)
  ELSE NoEnvelope

\* encyclopedia_search(message=..., top_k=...) up to the embedding request.
SearchCall(message, top_k) ==
  LET early == EarlyAnswer(message, top_k, store)
      L == [Called("search") EXCEPT
              !.msgOk = (message.isStr /\ message.text # <<>>),
              !.top_k = top_k,
              !.emptyAtCall = (store = <<>>)]
  IN  /\ pc = "idle"
      /\ IF early # NoEnvelope
         THEN /\ last' = [L EXCEPT !.result = early]
              /\ UNCHANGED <<pc, query>>
         ELSE /\ last' = [L EXCEPT !.done = FALSE, !.requests = 1]
              /\ pc' = "search_embed"
              /\ query' = [top_k |-> top_k]
      /\ UNCHANGED <<store, snapshot, parentDir, vectorCacheDir, job>>

\* A variant that ranks by sorting the cache itself, in place.
CacheAfterSearchSortedInPlace(response, s) ==
  LET query_embedding == _get_embedding(response)
  IN  IF query_embedding.raised THEN s
      ELSE IF ScanRaises(query_embedding.value, s) THEN s
      ELSE LET ranked == sorted_desc(Scored(query_embedding.value, s))
           IN  [i \in 1..Len(s) |-> s[ranked[i].pos]]

\* The cache holding s, after lines 245-273: the loop reads the entries and
\* fills the local list `similarities`, sorted() returns a new list, and
\* nothing is assigned to or called on _VECTOR_DATABASE_STORE.
CacheAfterSearch(response, s) == s

\* encyclopedia_search from the provider's answer to its return.
SearchReturn(response) ==
  /\ pc = "search_embed"
  /\ store' = CacheAfterSearch(response, store)
  /\ last' = [last EXCEPT !.done = TRUE,
                          !.query = _get_embedding(response),
                          !.why = FailureOf(response),
                          !.result = SearchOutcome(response, store, query.top_k)]
  /\ pc' = "idle"
  /\ query' = NoQuery
  /\ UNCHANGED <<snapshot, parentDir, vectorCacheDir, job>>

(* --------------------------- space calculator ------------------------- *)

\* tools/space_calculator.py, calculate_distance.  A coordinate is an
\* integer count of 10^-5 km; a value kept to 4 decimal places (round(v, 4))
\* is an integer count of 10^-4, FinerBy times coarser.  The arithmetic is
\* exact: the rounding error of the double operations is not modelled, and
\* the coordinates drawn never put a value half-way between two results.
FinerBy == 10

\* Line 211 divides by 149597870.7 and line 214 by 9460730472580.8; the model
\* keeps the divisions, scaled down to two small distinct factors.
KM_PER_AU == 3
KM_PER_LY == 7

Num(v) == [kind |-> "num", v |-> v]
Inf == [kind |-> "inf", v |-> 0]
NotANumber == [kind |-> "str", v |-> 0]

Dict(x, y, z) == [shape |-> "dict", keys |-> {"x", "y", "z"}, x |-> x, y |-> y, z |-> z]

\* current_coordinates arguments: the origin, a point off it by less than
\* one kept digit, a dictionary without z, a value that is no dictionary.
CurrentArgs ==
  { Dict(Num(0), Num(0), Num(0)),
    Dict(Num(4), Num(-12), Num(0)),
    [Dict(Num(0), Num(0), Num(0)) EXCEPT !.keys = {"x", "y"}],
    [Dict(Num(0), Num(0), Num(0)) EXCEPT !.shape = "list"] }

\* object_coordinates arguments: also an infinite and a non-numeric value.
ObjectArgs ==
  { Dict(Num(0), Num(0), Num(0)),
    Dict(Num(30), Num(40), Num(0)),
    Dict(Num(10000), Num(0), Num(0)),
    Dict(Num(10000), Num(10000), Num(10000)),
    Dict(Num(-20000), Num(8), Num(2000)),
    Dict(Num(12), Num(-4), Num(-300)),
    Dict(Inf, Num(0), Num(0)),
    Dict(Num(0), NotANumber, Num(0)),
    [Dict(Num(0), Num(0), Num(0)) EXCEPT !.shape = "list"] }

Units == {"km", "au", "ly", "m"}

\* round(v, 4) of a value v given in 10^-5: the nearest count of 10^-4.
round4(v) == (2 * v + FinerBy) \div (2 * FinerBy)

\* The largest n in lo..hi-1 with (n * q)^2 <= s, given (lo * q)^2 <= s and
\* s < (hi * q)^2.
RECURSIVE FloorRoot(_, _, _, _)
FloorRoot(s, q, lo, hi) ==
  IF hi - lo <= 1 THEN lo
  ELSE LET mid == (lo + hi) \div 2
       IN  IF (mid * q) * (mid * q) <= s THEN FloorRoot(s, q, mid, hi)
           ELSE FloorRoot(s, q, lo, mid)

\* round(math.sqrt(s) / per, 4) for s in (10^-5 km)^2: the count of 10^-4
\* nearest to sqrt(s) / (FinerBy * per).
round4_sqrt_over(s, per) ==
  LET q == FinerBy * per
      n == FloorRoot(s, q, 0, 46340 \div q)
  IN  IF 4 * (s - (n * n + n) * q * q) >= q * q THEN n + 1 ELSE n

\* A variant with the two divisors exchanged.
UnitDivisorSwapped(unit) ==
  IF unit = "km" THEN 1
  ELSE IF unit = "au" THEN KM_PER_LY
  ELSE IF unit = "ly" THEN KM_PER_AU
  ELSE 0

\* Lines 207-216: what distance_km is divided by, 0 for an unsupported unit.
UnitDivisor(unit) ==
  IF unit = "km" THEN 1
  ELSE IF unit = "au" THEN KM_PER_AU
  ELSE IF unit = "ly" THEN KM_PER_LY
  ELSE 0

\* calculate_distance(current_coordinates=..., object_coordinates=..., unit=...)
\* An infinite coordinate gives an infinite square (line 192) or a NaN
\* distance (line 199); both return an error envelope.
calculate_distance(current_coordinates, object_coordinates, unit) ==
  LET both == {current_coordinates, object_coordinates}
      required_keys == {"x", "y", "z"}
      values(c) == {c.x, c.y, c.z}
  IN  IF \E c \in both : c.shape # "dict" THEN ToolResult_err
      ELSE IF \E c \in both : ~(required_keys \subseteq c.keys) THEN ToolResult_err
      ELSE IF \E c \in both : \E v \in values(c) : v.kind = "str" THEN ToolResult_err
      ELSE IF \E c \in both : \E v \in values(c) : v.kind = "inf" THEN ToolResult_err
      ELSE LET dx == object_coordinates.x.v - current_coordinates.x.v
               dy == object_coordinates.y.v - current_coordinates.y.v
               dz == object_coordinates.z.v - current_coordinates.z.v
               sum == dx * dx + dy * dy + dz * dz
           IN  IF UnitDivisor(unit) = 0 THEN ToolResult_err
               ELSE ToolResult_ok("dict",
                      [distance |-> round4_sqrt_over(sum, UnitDivisor(unit)),
                       unit |-> unit,
                       vector |-> [x |-> round4(dx), y |-> round4(dy),
                                   z |-> round4(dz)]])

\* A call of calculate_distance; `last` keeps the arguments and the envelope.
CalculateDistanceCall(current_coordinates, object_coordinates, unit) ==
  /\ pc = "idle"
  /\ last' = [op |-> "calculate_distance",
              current |-> current_coordinates,
              object |-> object_coordinates,
              unit |-> unit,
              result |-> calculate_distance(current_coordinates,
                                            object_coordinates, unit)]
  /\ UNCHANGED <<store, snapshot, parentDir, vectorCacheDir, pc, job, query>>

(* --------------------------- specification ---------------------------- *)

Next ==
  \/ Save
  \/ Load
  \/ \E src \in Sources, w \in WorkerArgs : BuildCall(src, w)
  \/ \E src \in Sources, w \in WorkerArgs, f \in BOOLEAN : LoadOrBuildCall(src, w, f)
  \/ \E i \in 1..MaxChunks : WorkerStart(i)
  \/ \E i \in 1..MaxChunks, r \in BuildResponses : WorkerFinish(i, r)
  \/ \E i \in 1..MaxChunks : Collect(i)
  \/ BuildFinish
  \/ \E m \in Messages, k \in TopKs : SearchCall(m, k)
  \/ \E r \in ProviderResponses : SearchReturn(r)

Spec == Init /\ [][Next]_vars

(* ------------------- a search during a rebuild ------------------------ *)

\* encyclopedia_search called from a second thread while the first thread
\* runs initialize_vector_db_from_markdown.  No lock is taken anywhere in
\* vector_search.py.  The search reads the global _VECTOR_DATABASE_STORE
\* twice: at line 242 (emptiness) and at line 250, where the for loop takes
\* the list object then bound to the global and walks it entry by entry.
\* _clear_vector_database binds the global to a new list, so a loop that
\* began before the clear walks the old list, which nothing changes any
\* more ("old"); a loop that began after it walks the list the builder is
\* appending to ("live").  `query` holds the searching thread's state.

\* The cache the process starts the rebuild from: the snapshot, loaded.
OverlapSnapshot ==
  Json(<< SnapRecord(<<"a">>, 0, <<U, 0>>),
          SnapRecord(<<"a", "a">>, 1, <<0, U>>),
          SnapRecord(<<"a", SP, "a">>, 2, <<U, U>>) >>)

OverlapSources ==
  { [exists |-> FALSE, content |-> <<>>],
    [exists |-> TRUE, content |-> <<"a", NL, "a", "a">>] }

OverlapResponses ==
  { [kind |-> "client_error", vec |-> <<>>],
    [kind |-> "flat", vec |-> <<U, 0>>],
    [kind |-> "flat", vec |-> <<0, U>>] }

InitOverlap ==
  /\ snapshot = OverlapSnapshot
  /\ parentDir = TRUE
  /\ vectorCacheDir = FALSE
  /\ store = Deserialize(OverlapSnapshot.data)
  /\ pc = "idle"
  /\ job = NoJob
  /\ query = NoQuery
  /\ last = NoLast

\* The one rebuild, called by the first thread.
OverlapBuildCall(src, max_workers) ==
  /\ last.op = "none"
  /\ BuildCall(src, max_workers)

BuildStarted == last.op = "build"
BuildReturned == last.op = "build" /\ last.done

\* Lines 232-243 in the second thread: the arguments, then the first read
\* of the cache.
OverlapSearchCall(message, top_k) ==
  LET early == EarlyAnswer(message, top_k, store)
  IN  /\ query = NoQuery
      /\ query' = [stage |-> IF early # NoEnvelope THEN "returned" ELSE "embed",
                   top_k |-> top_k,
                   overAtCheck |-> BuildReturned,
                   startedAtReturn |-> BuildStarted,
                   checkSaw |-> store,
                   scanned |-> FALSE,
                   bound |-> "none", old |-> <<>>,
                   q |-> <<>>, seen |-> <<>>,
                   result |-> early]
      /\ UNCHANGED <<store, snapshot, parentDir, vectorCacheDir, pc, job, last>>

\* Lines 246-250: the provider answers the query's request, and the loop
\* takes the list the global is bound to.
OverlapEmbedReturn(response) ==
  LET query_embedding == _get_embedding(response)
  IN  /\ query # NoQuery
      /\ query.stage = "embed"
      /\ query' = IF query_embedding.raised
                  THEN [query EXCEPT !.stage = "returned",
                                     !.startedAtReturn = BuildStarted,
                                     !.result = ToolResult_err]
                  ELSE [query EXCEPT !.stage = "scan",
                                     !.q = query_embedding.value,
                                     !.bound = IF BuildStarted THEN "live" ELSE "old",
                                     !.old = IF BuildStarted THEN <<>> ELSE store]
      /\ UNCHANGED <<store, snapshot, parentDir, vectorCacheDir, pc, job, last>>

\* The list the loop of line 250 walks.
Walked == IF query.bound = "old" THEN query.old ELSE store

\* Lines 250-273: one round of the loop, or its end and the return.
OverlapScanStep ==
  /\ query # NoQuery
  /\ query.stage = "scan"
  /\ query' =
       IF Len(query.seen) < Len(Walked)
       THEN LET entry == Walked[Len(query.seen) + 1]
            IN  IF _cosine_similarity(query.q, entry.embedding).raised
                THEN [query EXCEPT !.stage = "returned",
                                   !.startedAtReturn = BuildStarted,
                                   !.result = ToolResult_err]
                ELSE [query EXCEPT !.seen = Append(@, entry)]
       ELSE LET top_results == TopResults(query.q, query.seen, query.top_k)
            IN  [query EXCEPT !.stage = "returned",
                              !.scanned = TRUE,
                              !.startedAtReturn = BuildStarted,
                              !.result = IF top_results = <<>> THEN ToolResult_ok_empty
                                         ELSE ToolResult_ok("list", top_results)]
  /\ UNCHANGED <<store, snapshot, parentDir, vectorCacheDir, pc, job, last>>

NextOverlap ==
  \/ \E src \in OverlapSources, w \in 1..MaxWorkers : OverlapBuildCall(src, w)
  \/ \E i \in 1..MaxChunks : WorkerStart(i)
  \/ \E i \in 1..MaxChunks, r \in OverlapResponses : WorkerFinish(i, r)
  \/ \E i \in 1..MaxChunks : Collect(i)
  \/ BuildFinish
  \/ \E m \in Messages, k \in {2, MAX_TOP_K, MAX_TOP_K + 1} : OverlapSearchCall(m, k)
  \/ \E r \in OverlapResponses : OverlapEmbedReturn(r)
  \/ OverlapScanStep

SpecOverlap == InitOverlap /\ [][NextOverlap]_vars

\* The calculator alone: the vector store is not touched.
InitDistance == Init /\ snapshot = Absent /\ parentDir

NextDistance ==
  \E c \in CurrentArgs, o \in ObjectArgs, u \in Units : CalculateDistanceCall(c, o, u)

SpecDistance == InitDistance /\ [][NextDistance]_vars

(* ------------------------------- claims ------------------------------- *)

BuildOver == last.op \in {"build", "load_or_build"} /\ last.done /\ last.buildRan

\* The number of records of s that carry chunk_id c.
Holding(s, c) == Cardinality({k \in 1..Len(s) : s[k].chunk_id = c})

\* C1: initialize_or_load_vector_db, on a snapshot file that holds a
\* snapshot (a file that is no JSON document makes json.load raise).  With
\* force_regenerate false and the file present it returns loaded_from_cache
\* with total_entries the number of snapshot records, sends no embedding
\* request, runs no build and does not save.  With force_regenerate true or
\* the file absent it runs the build, and it has called save exactly when the
\* build's status is success; the status it returns is the build's.
C1_LoadOrBuild ==
  (last.op = "load_or_build" /\ last.done
     /\ (last.force \/ last.snapAtCall # "garbage"))
  => IF ~last.force /\ last.snapAtCall = "json"
     THEN /\ ~last.raised
          /\ last.status = "loaded_from_cache"
          /\ snapshot.state = "json"
          /\ last.count = Len(snapshot.data)
          /\ Len(store) = last.count
          /\ last.requests = 0
          /\ ~last.buildRan
          /\ ~last.saveCalled
     ELSE /\ last.buildRan
          /\ last.status \in {"success", "error"}
          /\ last.saveCalled <=> (last.status = "success")
          /\ (last.status = "success" /\ ~last.raised)
               => snapshot = Json(Serialize(store))

\* C1, rebuild case reached: no snapshot, no force, the build succeeded with
\* a failed chunk and a cached one, and the result was saved.
C1_Witness ==
  /\ last.op = "load_or_build" /\ last.done
  /\ ~last.force /\ last.snapAtCall = "absent"
  /\ last.status = "success" /\ last.saveCalled /\ ~last.raised
  /\ last.failed # {} /\ store # <<>>
  /\ snapshot = Json(Serialize(store))

\* C2: a build that reached the pool ends with status success whatever set
\* F of chunks had its embedding request fail and whatever the order of
\* completion: every chunk's request was sent, the cache holds one record
\* for each chunk outside F, with that chunk's text, and none for a chunk of
\* F, and chunks_added is the number of chunks outside F.
C2_FailureIsolation ==
  (BuildOver /\ last.pool)
  => LET n == Len(last.chunks)
     IN  /\ last.status = "success"
         /\ last.requests = n
         /\ last.failed \subseteq 0..(n - 1)
         /\ \A c \in 0..(n - 1) :
              Holding(store, c) = IF c \in last.failed THEN 0 ELSE 1
         /\ \A k \in 1..Len(store) :
              /\ store[k].chunk_id \in 0..(n - 1)
              /\ store[k].text = last.chunks[store[k].chunk_id + 1]
         /\ last.count = n - Cardinality(last.failed)
         /\ last.total = last.count

\* C2, reached: two chunks, the first fails and the second is cached.
C2_Witness ==
  /\ BuildOver /\ last.pool
  /\ Len(last.chunks) = 2
  /\ last.failed = {0}
  /\ Len(store) = 1 /\ store[1].chunk_id = 1
  /\ last.count = 1

\* The lines of the source, and the places of those that are not blank.
SourceLines == split(last.content)
IsBlank(l) == \A j \in 1..Len(l) : l[j] = SP
NonBlankPlaces == {i \in 1..Len(SourceLines) : ~IsBlank(SourceLines[i])}

\* The place in the source of the line that is number c (from 0) among the
\* lines that are not blank.
PlaceOf(c) ==
  CHOOSE i \in NonBlankPlaces :
    Cardinality({j \in NonBlankPlaces : j < i}) = c

\* t is line l without its leading and trailing whitespace.
IsTrimOf(t, l) ==
  /\ t # <<>> /\ t[1] # SP /\ t[Len(t)] # SP
  /\ \E a \in 0..Len(l) :
       /\ a + Len(t) <= Len(l)
       /\ \A j \in 1..a : l[j] = SP
       /\ \A j \in 1..Len(t) : l[a + j] = t[j]
       /\ \A j \in (a + Len(t) + 1)..Len(l) : l[j] = SP

\* C3: after a build that reached the pool and in which every embedding
\* succeeded, over a source with n lines that are not blank, the cache holds
\* exactly n records, their chunk_id values are exactly 0..n-1, and the
\* record with chunk_id c carries the trimmed text of the c-th non-blank
\* line (counted among the non-blank lines, not among all lines), whatever
\* the order of completion.
C3_ChunkIds ==
  (BuildOver /\ last.pool /\ last.failed = {})
  => LET n == Cardinality(NonBlankPlaces)
     IN  /\ Len(store) = n
         /\ {store[k].chunk_id : k \in 1..Len(store)} = 0..(n - 1)
         /\ \A k \in 1..Len(store) :
              IsTrimOf(store[k].text, SourceLines[PlaceOf(store[k].chunk_id)])

\* C3, reached: blank lines before and between the two lines, and the second
\* chunk completed first.
C3_Witness ==
  /\ BuildOver /\ last.pool /\ last.failed = {}
  /\ Len(SourceLines) > 3 /\ IsBlank(SourceLines[1]) /\ IsBlank(SourceLines[3])
  /\ Len(store) = 2
  /\ store[1].chunk_id = 1 /\ store[2].chunk_id = 0

\* A search that got as far as ranking, with a list returned.
Ranked ==
  /\ last.op = "search" /\ last.done
  /\ last.result.ctor = "ok" /\ last.result.payload = "list"

\* C4: the list encyclopedia_search returns is in non-increasing order of
\* score, two results with equal score are in the order of their records in
\* the cache, and each result is a record of the cache with its score
\* against the query vector.
C4_SearchOrder ==
  Ranked
  => LET d == last.result.data
     IN  /\ \A i, j \in 1..Len(d) :
              i < j => /\ ScoreGE(d[i].score, d[j].score)
                       /\ ScoreEQ(d[i].score, d[j].score) => d[i].pos < d[j].pos
         /\ \A i \in 1..Len(d) :
              /\ d[i].pos \in 1..Len(store)
              /\ d[i].text = store[d[i].pos].text
              /\ d[i].chunk_id = store[d[i].pos].chunk_id
              /\ ~last.query.raised
              /\ d[i].score =
                   _cosine_similarity(last.query.value, store[d[i].pos].embedding).value

\* C4, reached: three results, the first two tied and ahead of the third.
C4_Witness ==
  /\ Ranked
  /\ Len(last.result.data) = 3
  /\ ScoreEQ(last.result.data[1].score, last.result.data[2].score)
  /\ ScoreGT(last.result.data[2].score, last.result.data[3].score)
  /\ last.result.data[1].pos = 1 /\ last.result.data[2].pos = 3

\* A search whose arguments were accepted, over a cache that was not empty,
\* and whose query was embedded.
Scanned ==
  /\ last.op = "search" /\ last.done
  /\ last.msgOk /\ last.top_k <= MAX_TOP_K /\ ~last.emptyAtCall
  /\ ~last.query.raised

\* The results returned, the empty list when the envelope carries none.
Returned == IF last.result.payload = "list" THEN last.result.data ELSE <<>>

\* C5: for every accepted top_k (every integer <= 25) the list returned
\* has at most top_k records, and they are the top_k highest-scoring ones.
C5_Truncation ==
  (Scanned /\ success(last.result))
  => LET all == sorted_desc(Scored(last.query.value, store))
     IN  /\ Len(Returned) <= last.top_k
         /\ Returned = SubSeq(all, 1, Min(last.top_k, Len(all)))

\* C5 for top_k in 0..25 (what the code does keep): at most top_k records,
\* the first top_k of the ranking.
C5_NonNegative ==
  (Scanned /\ success(last.result) /\ last.top_k >= 0)
  => LET all == sorted_desc(Scored(last.query.value, store))
     IN  /\ Len(Returned) <= last.top_k
         /\ Returned = SubSeq(all, 1, Min(last.top_k, Len(all)))

\* C6: with a non-empty string message and top_k > 25 the search returns
\* a failure envelope, the cache empty or not, and sends no embedding
\* request.
C6_TopKTooLarge ==
  (last.op = "search" /\ last.msgOk /\ last.top_k > MAX_TOP_K)
  => /\ last.done
     /\ last.result.ctor = "err"
     /\ ~success(last.result)
     /\ last.requests = 0

\* C6, reached on an empty cache.
C6_Witness ==
  /\ last.op = "search" /\ last.msgOk /\ last.top_k > MAX_TOP_K
  /\ last.emptyAtCall /\ last.done
  /\ last.result.ctor = "err"

\* The empty-result signal: a successful envelope that carries a message
\* and no result.
IsEmptySignal(envelope) ==
  /\ success(envelope)
  /\ envelope.ctor # "err"
  /\ envelope.payload = "text"
  /\ envelope.data = <<>>

\* C7: on an empty cache, with a non-empty string message and top_k <= 25,
\* the search returns the empty-result signal, never a failure, and sends
\* no embedding request.
C7_EmptyCache ==
  (last.op = "search" /\ last.msgOk /\ last.top_k <= MAX_TOP_K /\ last.emptyAtCall)
  => /\ last.done
     /\ IsEmptySignal(last.result)
     /\ last.requests = 0

\* C7, reached.
C7_Witness ==
  /\ last.op = "search" /\ last.msgOk /\ last.top_k <= MAX_TOP_K
  /\ last.emptyAtCall /\ last.done /\ store = <<>>
  /\ IsEmptySignal(last.result)

\* The places of the cached records whose vector has the configured length.
Matching == {i \in 1..Len(store) : Len(store[i].embedding) = EMBEDDING_DIMENSION}

\* C8: a cached record whose vector length differs from the configured
\* dimension is skipped: the search succeeds, returns only records of the
\* configured length, all of them when top_k allows, and returns the
\* empty-result signal when no record remains.
C8_SkipMismatched ==
  (Scanned /\ last.top_k >= 0)
  => /\ success(last.result)
     /\ \A i \in 1..Len(Returned) : Returned[i].pos \in Matching
     /\ last.top_k >= Cardinality(Matching) => Len(Returned) = Cardinality(Matching)
     /\ Matching = {} => IsEmptySignal(last.result)

\* C9: a _load_embeddings that directly follows a _save_embeddings that
\* returned (alone or at the end of initialize_or_load_vector_db) returns
\* true and leaves the cache as it was: as many records, in the same order,
\* each with the same text, chunk_id and vector.
C9_RoundTrip ==
  [][(last.saveCalled /\ ~last.raised /\ last.done /\ last'.op = "load")
       => /\ last'.ret /\ ~last'.raised
          /\ Len(store') = Len(store)
          /\ \A i \in 1..Len(store) :
               /\ store'[i].text = store[i].text
               /\ store'[i].chunk_id = store[i].chunk_id
               /\ store'[i].embedding = store[i].embedding]_vars

\* C9, reached: a load right after a save, over two records or more.
C9_Witness ==
  /\ last.op = "load" /\ last.afterSave /\ last.ret
  /\ Len(store) >= 2

\* C10: _load_embeddings on an absent file returns false and leaves the
\* cache as it was; on a file that holds a snapshot it returns true, and
\* the cache is then the snapshot's records and nothing else, in their
\* order, each vector rebuilt as a float32 array.
C10_Load ==
  [][(last'.op = "load" /\ snapshot.state # "garbage")
       => IF snapshot.state = "absent"
          THEN ~last'.ret /\ ~last'.raised /\ store' = store
          ELSE /\ last'.ret /\ ~last'.raised
               /\ Len(store') = Len(snapshot.data)
               /\ \A i \in 1..Len(snapshot.data) :
                    /\ store'[i].text = snapshot.data[i].text
                    /\ store'[i].chunk_id = snapshot.data[i].chunk_id
                    /\ Len(store'[i].embedding) = Len(snapshot.data[i].embedding)
                    /\ \A j \in 1..Len(snapshot.data[i].embedding) :
                         store'[i].embedding[j] = Float32(snapshot.data[i].embedding[j])]_vars

\* C10, reached: a load that replaced a cache that was not empty by a
\* snapshot of three records.
C10_Witness ==
  /\ last.op = "load" /\ last.ret /\ ~last.afterSave /\ ~last.emptyAtCall
  /\ snapshot.state = "json"
  /\ Len(store) = 3 /\ store = Deserialize(snapshot.data)

\* C11: a build against a source path that does not exist returns an
\* error status, the cache is empty afterwards (no record from before the
\* call, no partially built record), and no embedding request was sent.
C11_SourceNotFound ==
  (BuildOver /\ ~last.source)
  => /\ last.status = "error"
     /\ store = <<>>
     /\ last.requests = 0
     /\ ~last.pool

\* C11, reached by a build called while the cache held records.
C11_Witness ==
  /\ last.op = "build" /\ last.done /\ last.buildRan /\ ~last.source
  /\ ~last.emptyAtCall
  /\ last.status = "error" /\ store = <<>>

\* C12: a build whose source has no line that is non-empty after trimming
\* returns an error status, no embedding request was sent, and the cache is
\* empty afterwards.
C12_EmptySource ==
  (BuildOver /\ last.source /\ NonBlankPlaces = {})
  => /\ last.status = "error"
     /\ last.requests = 0
     /\ ~last.pool
     /\ store = <<>>

\* C12, reached on a source of two lines of whitespace, called while the
\* cache held records.
C12_Witness ==
  /\ last.op = "build" /\ last.done /\ last.buildRan /\ last.source
  /\ Len(SourceLines) = 2 /\ NonBlankPlaces = {}
  /\ ~last.emptyAtCall
  /\ last.status = "error" /\ store = <<>>

\* C13: no public operation raises to its caller: whatever the arguments,
\* the provider's answers and the files, encyclopedia_search,
\* initialize_vector_db_from_markdown and initialize_or_load_vector_db
\* return a value.
C13_NoRaise ==
  last.op \in {"search", "build", "load_or_build"} => ~last.raised

\* A search whose query was sent to the provider, over a cache that was not
\* empty, and came back failed.
QueryFailed ==
  /\ last.op = "search" /\ last.done
  /\ last.msgOk /\ last.top_k <= MAX_TOP_K /\ ~last.emptyAtCall
  /\ last.requests = 1
  /\ last.query.raised

\* C14: when the embedding request for the query fails (provider error,
\* missing embedding field or a vector of another length than configured)
\* over a cache that is not empty, the search returns a failure envelope
\* carrying a message: no success, no empty result, no result list.
C14_QueryEmbedFails ==
  /\ QueryFailed
       => /\ last.why \in {"client_error", "no_embedding", "dimension"}
          /\ last.result.ctor = "err"
          /\ ~success(last.result)
          /\ last.result.payload = "text"
          /\ ~IsEmptySignal(last.result)
  /\ (last.op = "search" /\ last.done /\ last.why # "") => QueryFailed

\* C14, reached with a provider vector of the wrong length.
C14_Witness ==
  /\ QueryFailed /\ last.why = "dimension"
  /\ last.result.ctor = "err" /\ store # <<>>

\* C15: _save_embeddings writes the whole cache to the snapshot path,
\* replacing what the file held, and succeeds also when the directory of
\* the snapshot file did not exist, which it creates.
C15_SaveCreatesParents ==
  last.op = "save"
  => /\ ~last.raised
     /\ parentDir
     /\ snapshot = Json(Serialize(store))

\* C18: within initialize_or_load_vector_db the snapshot is not written
\* while the build is under way; save runs in a step that finds every
\* submitted task completed and collected and that appends nothing, so what
\* is written is the final cache, one record for every chunk whose request
\* did not fail, never fewer; and when the call returns success the
\* snapshot equals the cache.
C18_SaveAfterJoin ==
  [][/\ (last'.op = "load_or_build" /\ ~last'.done) => snapshot' = snapshot
     /\ (last'.op = "load_or_build" /\ last'.saveCalled)
          => /\ pc = "embedding"
             /\ \A i \in 1..Len(job.chunks) : job.task[i] = "collected"
             /\ last'.requests = Len(job.chunks)
             /\ store' = store
             /\ last'.done /\ last'.status = "success"
             /\ ~last'.raised
                  => /\ snapshot' = Json(Serialize(store'))
                     /\ Len(snapshot'.data)
                          = Len(last'.chunks) - Cardinality(last'.failed)]_vars

\* C18, reached: a forced rebuild over an existing snapshot, two chunks
\* collected in the reverse of their order, saved.
C18_Witness ==
  /\ last.op = "load_or_build" /\ last.done /\ last.force
  /\ last.snapAtCall = "json"
  /\ last.status = "success" /\ last.saveCalled /\ ~last.raised
  /\ Len(store) = 2 /\ store[1].chunk_id = 1
  /\ snapshot = Json(Serialize(store))

\* C19: every record a build has appended has a vector of exactly the
\* configured dimension, during the build and after it; a chunk for which
\* the provider returned a vector of another length has no record in the
\* cache (its request failed: no cut and no padded vector is cached).
C19_Dimension ==
  (last.op \in {"build", "load_or_build"} /\ last.buildRan)
  => /\ \A k \in 1..Len(store) :
          /\ Len(store[k].embedding) = EMBEDDING_DIMENSION
          /\ store[k].chunk_id \notin last.wrongLen
     /\ last.wrongLen \subseteq last.failed

\* C19, reached: of two chunks the first got a vector of the wrong length
\* and the second is cached.
C19_Witness ==
  /\ BuildOver /\ last.pool
  /\ last.wrongLen = {0} /\ last.failed = {0}
  /\ Len(store) = 1 /\ store[1].chunk_id = 1
  /\ Len(store[1].embedding) = EMBEDDING_DIMENSION

\* The cached record at place i, or the query, has zero magnitude.
ZeroPair(i) ==
  \/ \A j \in 1..Len(last.query.value) : last.query.value[j] = 0
  \/ \A j \in 1..Len(store[i].embedding) : store[i].embedding[j] = 0

\* C20: in a search whose query was embedded, over a cache in which no
\* pair of a non-zero query and a non-zero cached vector differs in length,
\* the search succeeds, a record has score exactly 0.0 when its vector or
\* the query vector has zero magnitude (whatever their lengths), and such a
\* record is ranked by that score: behind every returned record of
\* positive score and ahead of every one of negative score.
C20_ZeroVectors ==
  (Scanned /\ \A i \in 1..Len(store) :
                 ZeroPair(i) \/ Len(store[i].embedding) = Len(last.query.value))
  => /\ success(last.result)
     /\ last.top_k >= Len(store) => Len(Returned) = Len(store)
     /\ \A i \in 1..Len(Returned) :
          ZeroPair(Returned[i].pos)
          => /\ Returned[i].score = ZeroScore
             /\ \A j \in 1..Len(Returned) :
                  /\ Returned[j].score.num > 0 => j < i
                  /\ Returned[j].score.num < 0 => i < j

\* C20, reached: a query that is not zero over four records, two of them
\* zero vectors (one of another length than configured), returned second
\* and third between a positive and a negative score.
C20_Witness ==
  /\ Scanned /\ success(last.result)
  /\ \E j \in 1..Len(last.query.value) : last.query.value[j] # 0
  /\ Len(Returned) = 4
  /\ Returned[1].score.num > 0
  /\ ZeroPair(Returned[2].pos) /\ Returned[2].score = ZeroScore
  /\ ZeroPair(Returned[3].pos) /\ Returned[3].score = ZeroScore
  /\ Len(store[Returned[2].pos].embedding) # Len(store[Returned[3].pos].embedding)
  /\ Returned[4].score.num < 0

\* A call of calculate_distance with two dictionaries holding finite
\* numbers under x, y and z.
DistanceOfNumbers ==
  /\ last.op = "calculate_distance"
  /\ \A c \in {last.current, last.object} :
       /\ c.shape = "dict" /\ {"x", "y", "z"} \subseteq c.keys
       /\ c.x.kind = "num" /\ c.y.kind = "num" /\ c.z.kind = "num"

DiffX == last.object.x.v - last.current.x.v
DiffY == last.object.y.v - last.current.y.v
DiffZ == last.object.z.v - last.current.z.v
SumOfSquares == DiffX * DiffX + DiffY * DiffY + DiffZ * DiffZ

\* What the norm is divided by for the unit named.
PerUnit(unit) == IF unit = "au" THEN KM_PER_AU ELSE IF unit = "ly" THEN KM_PER_LY ELSE 1

\* v, a count of 10^-4, is the one nearest to d, a count of 10^-5.
NearestTo(v, d) ==
  /\ 2 * (FinerBy * v - d) <= FinerBy
  /\ 2 * (d - FinerBy * v) <= FinerBy

\* C17 as stated: with numeric x, y, z and a unit of km, au, ly the call
\* succeeds, data.unit is the unit, data.vector is the difference object
\* minus current and data.distance is the norm of the difference converted
\* to the unit; with any other unit it fails.
C17_DistanceExact ==
  (last.op = "calculate_distance"
     /\ \A c \in {last.current, last.object} :
          /\ c.shape = "dict" /\ {"x", "y", "z"} \subseteq c.keys
          /\ c.x.kind # "str" /\ c.y.kind # "str" /\ c.z.kind # "str")
  => IF last.unit \in {"km", "au", "ly"}
     THEN /\ success(last.result)
          /\ last.result.data.unit = last.unit
          /\ FinerBy * last.result.data.vector.x = DiffX
          /\ FinerBy * last.result.data.vector.y = DiffY
          /\ FinerBy * last.result.data.vector.z = DiffZ
          /\ LET q == FinerBy * PerUnit(last.unit)
                 d == last.result.data.distance
             IN  d >= 0 /\ (d * q) * (d * q) = SumOfSquares
     ELSE ~success(last.result)

\* C17 amended: with finite numbers the vector components are the
\* differences rounded to 4 decimal places and the distance is the
\* converted norm rounded to 4 decimal places.
C17_DistanceRounded ==
  DistanceOfNumbers
  => IF last.unit \in {"km", "au", "ly"}
     THEN /\ success(last.result)
          /\ last.result.data.unit = last.unit
          /\ NearestTo(last.result.data.vector.x, DiffX)
          /\ NearestTo(last.result.data.vector.y, DiffY)
          /\ NearestTo(last.result.data.vector.z, DiffZ)
          /\ LET q == FinerBy * PerUnit(last.unit)
                 d == last.result.data.distance
             IN  /\ d >= 0
                 /\ d > 0 => ((2 * d - 1) * q) * ((2 * d - 1) * q) <= 4 * SumOfSquares
                 /\ 4 * SumOfSquares <= ((2 * d + 1) * q) * ((2 * d + 1) * q)
     ELSE ~success(last.result)

\* C17, reached: a distance in au that is not zero, with a vector component
\* that rounding changes and one, not zero, that it leaves as it is.
C17_Witness ==
  /\ DistanceOfNumbers /\ last.unit = "au" /\ success(last.result)
  /\ last.result.data.distance > 0
  /\ FinerBy * last.result.data.vector.y # DiffY
  /\ DiffX # 0 /\ FinerBy * last.result.data.vector.x = DiffX

\* C16: a search that overlaps in time with a rebuild sees, at its
\* emptiness check and in its scan, either the whole cache from before the
\* rebuild or the whole cache after it, never the cleared or the partly
\* filled cache.  Stated once both have returned: the search did its check
\* before the rebuild returned and returned after the rebuild was called.
C16_NoPartialView ==
  LET before == Deserialize(OverlapSnapshot.data)
      after == store
  IN  (/\ query # NoQuery /\ query.stage = "returned"
       /\ ~query.overAtCheck /\ query.startedAtReturn
       /\ BuildReturned
       /\ query.result.ctor # "err" \/ query.scanned)
      => /\ query.checkSaw \in {before, after}
         /\ query.scanned => query.seen \in {before, after}

\* C21: encyclopedia_search is read-only.  In every step of a search, from
\* its call to its return and whatever it returns (a validation failure,
\* the empty-cache signal, a failure of the provider or of the scan, a
\* ranked list), the cache keeps its records, in their order and with
\* their contents, and the snapshot file and the directories are as they
\* were.
C21_SearchReadOnly ==
  [][((pc = "idle" /\ last'.op = "search") \/ pc = "search_embed")
       => /\ last'.op = "search"
          /\ store' = store
          /\ snapshot' = snapshot
          /\ parentDir' = parentDir
          /\ vectorCacheDir' = vectorCacheDir]_vars

\* C21, reached: a search has returned a ranked list whose first result is
\* not the first record of the cache, and the cache is still the loaded
\* snapshot, record for record in the snapshot's order.
C21_Witness ==
  /\ Ranked
  /\ Len(store) >= 2
  /\ last.result.data[1].pos # 1
  /\ snapshot.state = "json"
  /\ store = Deserialize(snapshot.data)

======================================================================
